---------------------------- MODULE Spec2Model ----------------------------
(***************************************************************************)
(* A model of mpnum's factory functions (mpnum/factory.py) and of the      *)
(* matrix product POVM class (mpnum/povm/mppovm.py).                        *)
(*                                                                         *)
(* The module holds several state machines over disjoint groups of         *)
(* variables, one per part of the code:                                    *)
(*   gen_*   _generate and the factories built on it                       *)
(*   diag_*  diagonal_mpa                                                  *)
(*   rng_*   the random sources read by the random factories               *)
(*   povm_*  MPPovm: __iter__, probability_map, expectations               *)
(*   mpdo_*  random_mpdo and its scrambling loop                           *)
(* Each specification moves one group and leaves the others alone.         *)
(*                                                                         *)
(* Arrays are modelled by their shape (a sequence of axis lengths) and,    *)
(* where a claim is about values, by a function from index tuples to       *)
(* entries.  Sites are numbered 1..sites here and 0..sites-1 in Python.    *)
(***************************************************************************)
EXTENDS Integers, Sequences, FiniteSets, TLC

VARIABLES
    \* ---- _generate ----
    gen_pc,        \* "idle" | "build" | "done" | "raised"
    gen_req,       \* the arguments of the call (a request record)
    gen_ldim,      \* local `ldim` after normalisation: a tuple of tuples
    gen_rank,      \* local `rank` after line 171: (1,) + rank + (1,)
    gen_calls,     \* log of the calls of `func`: [n, shape] records
    gen_ltens,     \* the local tensors handed to mp.MPArray (their shapes)
    gen_err,       \* "" or the name of the exception raised
    \* ---- diagonal_mpa ----
    diag_pc,       \* "idle" | "done" | "raised"
    diag_entries,  \* argument `entries`: [ndim, data]
    diag_sites,    \* argument `sites`
    diag_ltens,    \* the local tensors of the result
    diag_cform,    \* the canonical form the result is built with
    diag_err,
    \* ---- random sources ----
    rng_pc,        \* "idle" | "done"
    rng_default,   \* state of the process-wide source np.random, two runs
    rng_state,     \* state of the caller's RandomState, two runs
    rng_result,    \* the numbers the call drew, in order, two runs
    rng_call,      \* the call made: [fn, explicit], and np.random before it
    \* ---- MPPovm ----
    povm_made,     \* the local tensors the device was constructed with
    povm_ltens,    \* self._ltens: the device's local tensors
    povm_host,     \* the argument `mpa` of expectations(): plegs per site
    povm_gen,      \* the generator object expectations() returned
    povm_pmaps,    \* what the caller's reads of probability_map returned
    povm_iters,    \* the iterators __iter__ returned (their positions)
    povm_err,      \* the exception expectations raised, and at which call
    \* ---- random_mpdo ----
    mpdo_pc,       \* "idle" | "scramble" | "done" | "raised"
    mpdo_args,     \* [sites, ldim, rank]
    mpdo_lt,       \* rho.lt: the shapes of the local tensors
    mpdo_ranks,    \* the tuple rho.ranks the loop enumerates
    mpdo_n,        \* number of loop iterations done
    mpdo_log       \* per iteration: [n, dim] of the unitary drawn

genVars  == <<gen_pc, gen_req, gen_ldim, gen_rank, gen_calls, gen_ltens, gen_err>>
diagVars == <<diag_pc, diag_entries, diag_sites, diag_ltens, diag_cform, diag_err>>
rngVars  == <<rng_pc, rng_default, rng_state, rng_result, rng_call>>
povmVars == <<povm_made, povm_ltens, povm_host, povm_gen, povm_pmaps, povm_iters, povm_err>>
mpdoVars == <<mpdo_pc, mpdo_args, mpdo_lt, mpdo_ranks, mpdo_n, mpdo_log>>
vars     == <<genVars, diagVars, rngVars, povmVars, mpdoVars>>

---------------------------------------------------------------------------
(* Bounds of the model.                                                    *)
MaxSites == 3      \* chains of 1..MaxSites sites
MaxDim   == 2      \* physical dimensions 1..MaxDim
MaxLegs  == 2      \* physical legs of a flat ldim spec: 1..MaxLegs
MaxRank  == 3      \* requested ranks 1..MaxRank
MaxLen   == 3      \* diagonal_mpa: `entries` of length 0..MaxLen
MaxEntry == 2      \* diagonal_mpa: entries drawn from 0..MaxEntry
MaxSeed  == 2      \* random sources start in a state 0..MaxSeed
RngSites == 2      \* random factories: chains of 1..RngSites sites
RngDim   == 2      \* random factories: local dimension and rank 1..RngDim
MaxWidth == 2      \* POVM devices of 1..MaxWidth sites
PovmDim  == 2      \* POVM elements of 1..PovmDim rows and columns
MaxHost  == 3      \* hosts of 1..MaxHost sites
MaxEvals == 2      \* reads of probability_map by the caller
MaxIters == 1      \* iterators obtained from __iter__
MpdoSites == 4     \* random_mpdo: chains of 1..MpdoSites sites
MpdoDim  == 3      \* random_mpdo: local dimension 1..MpdoDim
MpdoRank == 4      \* random_mpdo: rank 1..MpdoRank

---------------------------------------------------------------------------
(* Helpers on sequences and numbers.                                       *)
Min(a, b) == IF a <= b THEN a ELSE b

RECURSIVE Prod(_)
Prod(s) == IF s = <<>> THEN 1 ELSE Head(s) * Prod(Tail(s))

\* tuple * n: the tuple (x,) * n of Python
Repeat(x, n) == [i \in 1..n |-> x]

\* all sequences over S of length lo..hi
SeqsOf(S, lo, hi) == UNION {[1..n -> S] : n \in lo..hi}

\* Python's zip(a, b) followed by min on each pair: as long as the shorter
ZipMin(a, b) == [i \in 1..Min(Len(a), Len(b)) |-> Min(a[i], b[i])]

---------------------------------------------------------------------------
(* Initial values of the groups.                                           *)
GenInit ==
    /\ gen_pc = "idle"
    /\ gen_req = [sites |-> 0, ldim |-> [kind |-> "none", val |-> <<>>],
                  rank |-> [kind |-> "none", val |-> <<>>], force_rank |-> FALSE]
    /\ gen_ldim = <<>>
    /\ gen_rank = <<>>
    /\ gen_calls = <<>>
    /\ gen_ltens = <<>>
    /\ gen_err = ""


---------------------------------------------------------------------------
(* _generate (factory.py 125-174) and the factories that call it.          *)

\* The physical-dimension specs a caller may pass.  `kind` records the
\* Python type the isinstance tests of lines 153 and 156 look at.
LdimScalars == {[kind |-> "scalar", val |-> d] : d \in 1..MaxDim}
LdimFlats   == {[kind |-> "flat", val |-> s] : s \in SeqsOf(1..MaxDim, 1, MaxLegs)}
PerSiteDims == {<<>>, <<1>>, <<MaxDim>>, <<MaxDim, MaxDim + 1>>}
LdimNested(lens) == {[kind |-> "nested", val |-> s] :
                        s \in UNION {[1..n -> PerSiteDims] : n \in lens}}
\* The rank specs a caller may pass.
RankScalars == {[kind |-> "scalar", val |-> r] : r \in 1..MaxRank}
RankSeqs(lens) == {[kind |-> "seq", val |-> s] :
                      s \in UNION {[1..n -> 1..MaxRank] : n \in lens}}

\* Requests that meet the documented preconditions: a nested ldim has
\* `sites` entries, a rank sequence has `sites - 1`.
ValidArgs ==
    UNION {[sites : {n},
            ldim : LdimScalars \cup LdimFlats \cup LdimNested({n}),
            rank : RankScalars \cup RankSeqs({n - 1}),
            force_rank : BOOLEAN] : n \in 1..MaxSites}

\* Requests whose sequences may have any length, right or wrong.
AnyArgs ==
    [sites : 1..MaxSites,
     ldim : LdimScalars
            \cup {[kind |-> "nested", val |-> s] :
                     s \in SeqsOf({<<1>>, <<MaxDim>>}, 1, MaxSites + 1)},
     rank : RankScalars \cup RankSeqs(0..MaxSites),
     force_rank : BOOLEAN]

\* mp.full_rank(ldim): at each cut, the smaller of the products of the
\* physical dimensions on its two sides.
SiteSize(ldim) == [n \in 1..Len(ldim) |-> Prod(ldim[n])]
full_rank(ldim) ==
    [k \in 1..(Len(ldim) - 1) |->
        Min(Prod(SubSeq(SiteSize(ldim), 1, k)),
            Prod(SubSeq(SiteSize(ldim), k + 1, Len(ldim))))]

\* lines 153-157: ldim as a tuple with one tuple of dimensions per site
NormLdim(ldim, sites) ==
    LET t == IF ldim.kind = "scalar" THEN <<ldim.val>> ELSE ldim.val
    IN  IF ldim.kind = "nested" THEN t ELSE Repeat(t, sites)

\* lines 160-163: rank as a tuple
NormRank(rank, sites) ==
    IF rank.kind = "scalar" THEN Repeat(rank.val, sites - 1) ELSE rank.val

\* a slip in the cap: applied whatever force_rank says
CapRank_always(rank, ldim, force_rank) == ZipMin(rank, full_rank(ldim))

\* lines 165-166: the cap, skipped when force_rank is set
CapRank(rank, ldim, force_rank) ==
    IF ~force_rank THEN ZipMin(rank, full_rank(ldim)) ELSE rank

\* a slip in the shape: the left bond read one place too far
LocalShape_shifted(rank, ld, n) == <<rank[n + 1]>> \o ld \o <<rank[n + 1]>>

\* line 172: the shape func is called with for the n-th entry of ldim
\* (n counts from 1 here; `rank` already carries the two boundary 1s)
LocalShape(rank, ld, n) == <<rank[n]>> \o ld \o <<rank[n + 1]>>

\* lines 152-171: everything before the local tensors are generated
Generate(sites, ldim, rank, force_rank) ==
    LET ld == NormLdim(ldim, sites)
        rk == CapRank(NormRank(rank, sites), ld, force_rank)
    IN  /\ gen_req' = [sites |-> sites, ldim |-> ldim, rank |-> rank,
                       force_rank |-> force_rank]
        /\ IF Len(ld) = sites /\ Len(rk) = sites - 1
           THEN /\ gen_pc' = "build"
                /\ gen_ldim' = ld
                /\ gen_rank' = <<1>> \o rk \o <<1>>
                /\ gen_err' = ""
           ELSE /\ gen_pc' = "raised"
                /\ gen_err' = "AssertionError"
                /\ UNCHANGED <<gen_ldim, gen_rank>>
        /\ UNCHANGED <<gen_calls, gen_ltens>>
        /\ UNCHANGED <<diagVars, rngVars, povmVars, mpdoVars>>

\* _generate called directly
Call_generate(A) ==
    /\ gen_pc = "idle"
    /\ \E a \in A : Generate(a.sites, a.ldim, a.rank, a.force_rank)

\* random_mpa (line 235) and random_mps (line 371) pass their arguments on
Call_random_mpa(A) ==
    /\ gen_pc = "idle"
    /\ \E a \in A : Generate(a.sites, a.ldim, a.rank, a.force_rank)

Call_random_mps(A) ==
    /\ gen_pc = "idle"
    /\ \E a \in A : Generate(a.sites, a.ldim, a.rank, a.force_rank)

\* zero (line 260)
Call_zero(A) ==
    /\ gen_pc = "idle"
    /\ \E a \in A : Generate(a.sites, a.ldim, a.rank, a.force_rank)

\* random_mpo (line 336) doubles its scalar local dimension: (ldim,) * 2
Call_random_mpo(A) ==
    /\ gen_pc = "idle"
    /\ \E a \in A :
        /\ a.ldim.kind = "scalar"
        /\ Generate(a.sites,
                    [kind |-> "flat", val |-> <<a.ldim.val, a.ldim.val>>],
                    a.rank, a.force_rank)

\* lines 172-174: mp.MPArray consumes the generator `ltens`; each step is
\* one call of func, for the next entry of enumerate(ldim)
GenerateLocal ==
    /\ gen_pc = "build"
    /\ Len(gen_calls) < Len(gen_ldim)
    /\ LET n == Len(gen_calls) + 1
           shape == LocalShape(gen_rank, gen_ldim[n], n)
       IN  /\ gen_calls' = Append(gen_calls, [n |-> n - 1, shape |-> shape])
           /\ gen_ltens' = Append(gen_ltens, shape)
    /\ UNCHANGED <<gen_pc, gen_req, gen_ldim, gen_rank, gen_err>>
    /\ UNCHANGED <<diagVars, rngVars, povmVars, mpdoVars>>

\* line 174: the train is returned once the generator is exhausted
GenerateReturn ==
    /\ gen_pc = "build"
    /\ Len(gen_calls) = Len(gen_ldim)
    /\ gen_pc' = "done"
    /\ UNCHANGED <<gen_req, gen_ldim, gen_rank, gen_calls, gen_ltens, gen_err>>
    /\ UNCHANGED <<diagVars, rngVars, povmVars, mpdoVars>>

\* lines 152-172 for a request that passes the assertions: the shapes of
\* the local tensors, in site order
GenerateShapes(sites, ldim, rank, force_rank) ==
    LET ld == NormLdim(ldim, sites)
        rk == <<1>> \o CapRank(NormRank(rank, sites), ld, force_rank) \o <<1>>
    IN  [n \in 1..sites |-> LocalShape(rk, ld[n], n)]

\* The train mp.MPArray holds: bond ranks and physical shape per site.
TrainRanks(ltens) == [k \in 1..(Len(ltens) - 1) |-> ltens[k][Len(ltens[k])]]
TrainShape(ltens) == [n \in 1..Len(ltens) |-> SubSeq(ltens[n], 2, Len(ltens[n]) - 1)]

---------------------------------------------------------------------------
DiagInit ==
    /\ diag_pc = "idle"
    /\ diag_entries = [ndim |-> 1, data |-> <<>>]
    /\ diag_sites = 1
    /\ diag_ltens = <<>>
    /\ diag_cform = <<>>
    /\ diag_err = ""

RngInit ==
    /\ rng_pc = "idle"
    /\ rng_default = <<0, 0>>
    /\ rng_state = <<0, 0>>
    /\ rng_result = <<<<>>, <<>>>>
    /\ rng_call = [fn |-> "", explicit |-> FALSE, default0 |-> <<0, 0>>]

NoGenerator ==
    [pc |-> "none", n |-> 0, out |-> <<>>, computed |-> 0, requests |-> 0,
     pmap |-> <<>>]

PovmInit ==
    /\ povm_made = <<>>
    /\ povm_ltens = <<>>
    /\ povm_host = <<>>
    /\ povm_gen = NoGenerator
    /\ povm_pmaps = <<>>
    /\ povm_iters = <<>>
    /\ povm_err = [name |-> "", at |-> ""]

MpdoInit ==
    /\ mpdo_pc = "idle"
    /\ mpdo_args = [sites |-> 0, ldim |-> 0, rank |-> 0]
    /\ mpdo_lt = <<>>
    /\ mpdo_ranks = <<>>
    /\ mpdo_n = 0
    /\ mpdo_log = <<>>

---------------------------------------------------------------------------
(* Specifications of _generate.                                            *)
Init == GenInit /\ DiagInit /\ RngInit /\ PovmInit /\ MpdoInit

\* calls that meet the documented preconditions
Next ==
    \/ Call_generate(ValidArgs)
    \/ Call_random_mpa(ValidArgs)
    \/ Call_random_mps(ValidArgs)
    \/ Call_zero(ValidArgs)
    \/ Call_random_mpo(ValidArgs)
    \/ GenerateLocal
    \/ GenerateReturn

Spec == Init /\ [][Next]_vars

\* calls with sequences of any length
NextAny ==
    \/ Call_generate(AnyArgs)
    \/ Call_random_mpa(AnyArgs)
    \/ Call_random_mps(AnyArgs)
    \/ Call_zero(AnyArgs)
    \/ Call_random_mpo(AnyArgs)
    \/ GenerateLocal
    \/ GenerateReturn

SpecAny == Init /\ [][NextAny]_vars

---------------------------------------------------------------------------
(* Properties of _generate.                                                *)

\* What the request asks for, read off the arguments alone.
ReqDims(req) ==
    [n \in 1..req.sites |->
        CASE req.ldim.kind = "scalar" -> <<req.ldim.val>>
          [] req.ldim.kind = "flat"   -> req.ldim.val
          [] req.ldim.kind = "nested" -> req.ldim.val[n]]

ReqRanks(req) ==
    [k \in 1..(req.sites - 1) |->
        IF req.rank.kind = "scalar" THEN req.rank.val ELSE req.rank.val[k]]

RECURSIVE DimsProduct(_, _, _)
DimsProduct(dims, lo, hi) ==
    IF lo > hi THEN 1 ELSE Prod(dims[lo]) * DimsProduct(dims, lo + 1, hi)

\* the full-rank bound at the cut between sites k and k + 1
CutBound(dims, k) ==
    Min(DimsProduct(dims, 1, k), DimsProduct(dims, k + 1, Len(dims)))

Last(s) == s[Len(s)]

\* C1: for every valid request _generate calls the local-tensor function
\* once per site, in site order, with shape (r[n],) + dims[n] + (r[n+1],)
\* where r[0] = r[sites] = 1; the train returned has `sites` local tensors,
\* sites - 1 bond ranks, matching ranks at every internal bond, and the
\* physical dimensions of the normalised spec.
C1_GenerateStructure ==
    gen_pc # "idle" =>
        /\ gen_pc # "raised"
        /\ Len(gen_calls) <= gen_req.sites
        /\ \A i \in 1..Len(gen_calls) :
              LET sh == gen_calls[i].shape
              IN  /\ gen_calls[i].n = i - 1
                  /\ SubSeq(sh, 2, Len(sh) - 1) = ReqDims(gen_req)[i]
                  /\ sh[1] = (IF i = 1 THEN 1 ELSE Last(gen_calls[i - 1].shape))
                  /\ (i = gen_req.sites => Last(sh) = 1)
        /\ gen_pc = "done" =>
              /\ Len(gen_calls) = gen_req.sites
              /\ gen_ltens = [i \in 1..gen_req.sites |-> gen_calls[i].shape]
              /\ Len(TrainRanks(gen_ltens)) = gen_req.sites - 1
              /\ TrainShape(gen_ltens) = ReqDims(gen_req)
              /\ gen_ltens[1][1] = 1
              /\ Last(gen_ltens[gen_req.sites]) = 1
              /\ \A k \in 1..(gen_req.sites - 1) :
                    Last(gen_ltens[k]) = gen_ltens[k + 1][1]

\* a three-site train built from a nested ldim and a rank sequence
C1_Witness ==
    /\ gen_pc = "done"
    /\ gen_req.sites = 3
    /\ gen_req.ldim.kind = "nested"
    /\ gen_req.rank.kind = "seq"
    /\ Len(gen_calls) = 3
    /\ TrainRanks(gen_ltens) = <<2, 3>>

\* C2: with force_rank the returned ranks are the requested ones, also
\* above the full-rank bound; without it the rank at every bond is the
\* smaller of the requested rank and the full-rank bound of that cut.
C2_Ranks ==
    gen_pc = "done" =>
        LET got  == TrainRanks(gen_ltens)
            want == ReqRanks(gen_req)
            dims == ReqDims(gen_req)
        IN  /\ Len(got) = gen_req.sites - 1
            /\ \A k \in 1..(gen_req.sites - 1) :
                  IF gen_req.force_rank
                  THEN got[k] = want[k]
                  ELSE /\ got[k] = Min(want[k], CutBound(dims, k))
                       /\ got[k] <= CutBound(dims, k)
                       /\ got[k] <= want[k]

\* a forced rank above the bound of its cut
C2_Witness ==
    /\ gen_pc = "done"
    /\ gen_req.force_rank
    /\ \E k \in 1..(gen_req.sites - 1) :
          TrainRanks(gen_ltens)[k] > CutBound(ReqDims(gen_req), k)

\* an unforced request with one rank capped and another left as asked
C2_CappedReached ==
    /\ gen_pc = "done"
    /\ ~gen_req.force_rank
    /\ \E k, j \in 1..(gen_req.sites - 1) :
          /\ TrainRanks(gen_ltens)[k] < ReqRanks(gen_req)[k]
          /\ TrainRanks(gen_ltens)[j] = ReqRanks(gen_req)[j]

\* a request whose rank sequence or nested ldim has the wrong length
MisSized(req) ==
    \/ req.rank.kind = "seq" /\ Len(req.rank.val) # req.sites - 1
    \/ req.ldim.kind = "nested" /\ Len(req.ldim.val) # req.sites

\* C3: _generate and the factories built on it raise, and return no train,
\* whenever the rank sequence has a length other than sites - 1 or the
\* nested ldim a length other than sites, with and without force_rank.
C3_MisSizedRaises ==
    (gen_pc # "idle" /\ MisSized(gen_req)) => gen_pc = "raised"

---------------------------------------------------------------------------
(* Arrays with values: [shape, val], val a function of 0-based index       *)
(* tuples, as in numpy.                                                    *)

\* the index tuples of an array of the given shape
RECURSIVE Indices(_)
Indices(shape) ==
    IF shape = <<>> THEN {<<>>}
    ELSE {<<h>> \o t : h \in 0..(shape[1] - 1), t \in Indices(Tail(shape))}

RECURSIVE SumOver(_, _)
\* the sum of f[x] over the finite set S
SumOver(S, f) ==
    IF S = {} THEN 0
    ELSE LET x == CHOOSE y \in S : TRUE IN f[x] + SumOver(S \ {x}, f)

\* the position of index tuple i in the row-major flattening
RECURSIVE Ravel(_, _)
Ravel(i, shape) ==
    IF Len(shape) = 0 THEN 0
    ELSE i[1] * Prod(Tail(shape)) + Ravel(Tail(i), Tail(shape))

\* the index tuple at position k of the row-major flattening
RECURSIVE Unravel(_, _)
Unravel(k, shape) ==
    IF Len(shape) = 0 THEN <<>>
    ELSE LET stride == Prod(Tail(shape))
         IN  <<k \div stride>> \o Unravel(k % stride, Tail(shape))

\* ndarray.reshape(newshape): same flattening, other shape
Reshape(arr, newshape) ==
    [shape |-> newshape,
     val   |-> [i \in Indices(newshape) |->
                   arr.val[Unravel(Ravel(i, newshape), arr.shape)]]]

---------------------------------------------------------------------------
(* diagonal_mpa (factory.py 285-309).                                      *)

\* np.eye(n)
np_eye(n) ==
    [shape |-> <<n, n>>,
     val   |-> [i \in Indices(<<n, n>>) |-> IF i[1] = i[2] THEN 1 ELSE 0]]

\* np.diag(v) of a one-dimensional v
np_diag(v) ==
    [shape |-> <<Len(v), Len(v)>>,
     val   |-> [i \in Indices(<<Len(v), Len(v)>>) |->
                   IF i[1] = i[2] THEN v[i[1] + 1] ELSE 0]]

\* line 302
leftmost_ltens(ldim) == Reshape(np_eye(ldim), <<1, ldim, ldim>>)

\* line 303
rightmost_ltens(entries) ==
    Reshape(np_diag(entries), <<Len(entries), Len(entries), 1>>)

\* a slip in the centre tensor: every entry 1 instead of the diagonal only
center_ltens_ones(ldim) ==
    [shape |-> <<ldim, ldim, ldim>>,
     val   |-> [i \in Indices(<<ldim, ldim, ldim>>) |-> 1]]

\* lines 304-305: np.zeros((ldim,) * 3), then np.fill_diagonal(.., 1)
center_ltens(ldim) ==
    [shape |-> <<ldim, ldim, ldim>>,
     val   |-> [i \in Indices(<<ldim, ldim, ldim>>) |->
                   IF i[1] = i[2] /\ i[2] = i[3] THEN 1 ELSE 0]]

\* mp.MPArray.from_array(entries) of a one-dimensional array: one site,
\* one physical leg, both bonds of rank 1
from_array(entries) ==
    <<[shape |-> <<1, Len(entries), 1>>,
       val   |-> [i \in Indices(<<1, Len(entries), 1>>) |-> entries[i[2] + 1]]]>>

\* the arguments diagonal_mpa is called with
DiagEntries ==
    {[ndim |-> 1, data |-> v] : v \in SeqsOf(0..MaxEntry, 0, MaxLen)}
    \cup {[ndim |-> k, data |-> <<>>] : k \in {0, 2}}

\* lines 292-309, for sites > 0
diagonal_mpa ==
    /\ diag_pc = "idle"
    /\ \E entries \in DiagEntries, sites \in 1..MaxSites :
          /\ diag_entries' = entries
          /\ diag_sites' = sites
          /\ IF entries.ndim # 1
             THEN /\ diag_pc' = "raised"
                  /\ diag_err' = "NotImplementedError"
                  /\ UNCHANGED <<diag_ltens, diag_cform>>
             ELSE IF sites < 2
             THEN /\ diag_pc' = "done"
                  /\ diag_ltens' = from_array(entries.data)
                  /\ UNCHANGED <<diag_cform, diag_err>>
             ELSE LET ldim == Len(entries.data)
                  IN  /\ diag_pc' = "done"
                      /\ diag_ltens' = <<leftmost_ltens(ldim)>>
                                       \o Repeat(center_ltens(ldim), sites - 2)
                                       \o <<rightmost_ltens(entries.data)>>
                      /\ diag_cform' = <<sites - 1, sites>>
                      /\ UNCHANGED diag_err
    /\ UNCHANGED <<genVars, rngVars, povmVars, mpdoVars>>

NextDiag == diagonal_mpa

SpecDiag == Init /\ [][NextDiag]_vars

\* The entry of the array a chain of one-leg local tensors represents, at
\* physical index idx: the sum over the bond indices of the product of the
\* local entries.  Amp is the part from site n on, entered with bond b.
RECURSIVE Amp(_, _, _, _)
Amp(lt, idx, n, b) ==
    IF n = Len(lt)
    THEN lt[n].val[<<b, idx[n], 0>>]
    ELSE SumOver(0..(lt[n].shape[3] - 1),
                 [c \in 0..(lt[n].shape[3] - 1) |->
                     lt[n].val[<<b, idx[n], c>>] * Amp(lt, idx, n + 1, c)])

to_array(lt, idx) == Amp(lt, idx, 1, 0)

\* C7: for one-dimensional entries of length d and sites >= 2, diagonal_mpa
\* builds sites local tensors of shapes (1,d,d), (d,d,d) sites-2 times,
\* (d,d,1), all bond ranks d, canonical form (sites-1, sites); the chain's
\* value is entries[i] at (i,...,i) and 0 elsewhere.  For sites = 1 it is
\* the one-site construction from entries; entries with more than one axis
\* raise NotImplementedError.
C7_Diagonal ==
    diag_pc # "idle" =>
        LET d == Len(diag_entries.data)
        IN  /\ diag_entries.ndim > 1 =>
                  /\ diag_pc = "raised"
                  /\ diag_err = "NotImplementedError"
                  /\ diag_ltens = <<>>
            /\ (diag_entries.ndim = 1 /\ diag_sites = 1) =>
                  /\ diag_pc = "done"
                  /\ Len(diag_ltens) = 1
                  /\ diag_ltens[1].shape = <<1, d, 1>>
                  /\ \A i \in 0..(d - 1) :
                        diag_ltens[1].val[<<0, i, 0>>] = diag_entries.data[i + 1]
            /\ (diag_entries.ndim = 1 /\ diag_sites >= 2) =>
                  /\ diag_pc = "done"
                  /\ Len(diag_ltens) = diag_sites
                  /\ diag_ltens[1].shape = <<1, d, d>>
                  /\ diag_ltens[diag_sites].shape = <<d, d, 1>>
                  /\ \A n \in 2..(diag_sites - 1) : diag_ltens[n].shape = <<d, d, d>>
                  /\ TrainRanks([n \in 1..diag_sites |-> diag_ltens[n].shape])
                        = Repeat(d, diag_sites - 1)
                  /\ diag_cform = <<diag_sites - 1, diag_sites>>
                  /\ \A idx \in [1..diag_sites -> 0..(d - 1)] :
                        to_array(diag_ltens, idx) =
                            IF \A n \in 1..diag_sites : idx[n] = idx[1]
                            THEN diag_entries.data[idx[1] + 1]
                            ELSE 0

\* a three-site chain with distinct non-zero entries
C7_Witness ==
    /\ diag_pc = "done"
    /\ diag_sites = 3
    /\ diag_entries.data = <<1, 2>>
    /\ to_array(diag_ltens, <<1, 1, 1>>) = 2
    /\ to_array(diag_ltens, <<0, 1, 0>>) = 0

---------------------------------------------------------------------------
(* The random sources (factory.py 25-45) and the factories that draw from  *)
(* them.  A source is modelled by its position in its stream: a draw of k  *)
(* numbers returns the k numbers from that position on and advances it.    *)
(* Two sources in the same state return the same numbers.                  *)
(*                                                                         *)
(* An environment env = [default, state, out] holds the state of           *)
(* np.random, the state of the caller's RandomState, and the numbers the   *)
(* running call has drawn so far.  `randstate` is "None" or "given".        *)

\* randstate.randn(*shape) on the source line 33/44 selects
randn(env, shape, randstate) ==
    LET k   == Prod(shape)
        own == randstate # "None"
        pos == IF own THEN env.state ELSE env.default
    IN  [default |-> IF own THEN env.default ELSE env.default + k,
         state   |-> IF own THEN env.state + k ELSE env.state,
         out     |-> env.out \o [i \in 1..k |-> pos + i - 1]]

\* line 34: two draws of the shape, real and imaginary part
zrandn(env, shape, randstate) ==
    randn(randn(env, shape, randstate), shape, randstate)

\* _randfuncs[dtype] (line 48)
randfunc(env, shape, randstate, dtype) ==
    IF dtype = "complex" THEN zrandn(env, shape, randstate)
    ELSE randn(env, shape, randstate)

RECURSIVE DrawShapes(_, _, _, _)
\* the generator of line 172 with func = randfun, consumed in site order
DrawShapes(env, shapes, randstate, dtype) ==
    IF shapes = <<>> THEN env
    ELSE DrawShapes(randfunc(env, Head(shapes), randstate, dtype),
                    Tail(shapes), randstate, dtype)

Scalar(v) == [kind |-> "scalar", val |-> v]

\* random_mpa, lines 234-235 (the rescaling of line 237 draws nothing)
random_mpa(env, sites, ldim, rank, randstate, dtype) ==
    DrawShapes(env, GenerateShapes(sites, ldim, rank, FALSE), randstate, dtype)

\* random_mpo, line 336
random_mpo(env, sites, ldim, rank, randstate) ==
    random_mpa(env, sites, [kind |-> "flat", val |-> <<ldim, ldim>>],
               Scalar(rank), randstate, "complex")

\* random_mps, line 371
random_mps(env, sites, ldim, rank, randstate) ==
    random_mpa(env, sites, Scalar(ldim), Scalar(rank), randstate, "complex")

\* _unitary_haar, line 438
unitary_haar(env, dim, randstate) == zrandn(env, <<dim, dim>>, randstate)

RECURSIVE DrawStates(_, _, _, _, _)
\* line 393: k calls of random_mps(sites, ldim, 1, randstate)
DrawStates(env, k, sites, ldim, randstate) ==
    IF k = 0 THEN env
    ELSE DrawStates(random_mps(env, sites, ldim, 1, randstate),
                    k - 1, sites, ldim, randstate)

RECURSIVE DrawUnitaries(_, _, _)
\* lines 399-400: one unitary per entry of rho.ranks
DrawUnitaries(env, ranks, randstate) ==
    IF ranks = <<>> THEN env
    ELSE DrawUnitaries(unitary_haar(env, Head(ranks), randstate),
                       Tail(ranks), randstate)

\* random_mpdo, lines 393-402; randstate "None" stands for the default
\* argument np.random, the process-wide source itself.  rho.ranks is
\* `rank` at each of the sites - 1 bonds.
random_mpdo(env, sites, ldim, rank, randstate) ==
    LET psis    == DrawStates(env, rank, sites, ldim, randstate)
        weights == randn(psis, <<rank>>, randstate)
    IN  DrawUnitaries(weights, Repeat(rank, sites - 1), randstate)

\* _random_op, line 87
random_op(env, sites, ldim, randstate) ==
    zrandn(env, <<ldim ^ sites, ldim ^ sites>>, randstate)

RECURSIVE DrawLocalHams(_, _, _, _)
\* lines 419-425: get_local_ham calls _random_op without a randstate
DrawLocalHams(env, k, intlen, ldim) ==
    IF k = 0 THEN env
    ELSE DrawLocalHams(random_op(env, intlen, ldim, "None"), k - 1, intlen, ldim)

\* random_local_ham, line 425
random_local_ham(env, sites, ldim, intlen, randstate) ==
    DrawLocalHams(env, sites + 1 - intlen, intlen, ldim)

\* the environment of run i before a call
EnvOf(i) == [default |-> rng_default[i], state |-> rng_state[i], out |-> <<>>]

\* A call, made in both runs with the same arguments: a, b the
\* environments after it.
RngReturn(fn, randstate, a, b) ==
    /\ rng_pc' = "done"
    /\ rng_call' = [fn |-> fn, explicit |-> randstate = "given",
                    default0 |-> rng_default]
    /\ rng_default' = <<a.default, b.default>>
    /\ rng_state' = <<a.state, b.state>>
    /\ rng_result' = <<a.out, b.out>>
    /\ UNCHANGED <<genVars, diagVars, povmVars, mpdoVars>>

RandStates == {"None", "given"}

Rng_random_mpa ==
    /\ rng_pc = "idle"
    /\ \E sites \in 1..RngSites, ldim \in 1..RngDim, rank \in 1..RngDim,
          randstate \in RandStates, dtype \in {"float", "complex"} :
          RngReturn("random_mpa", randstate,
              random_mpa(EnvOf(1), sites, Scalar(ldim), Scalar(rank), randstate, dtype),
              random_mpa(EnvOf(2), sites, Scalar(ldim), Scalar(rank), randstate, dtype))

Rng_random_mpo ==
    /\ rng_pc = "idle"
    /\ \E sites \in 1..RngSites, ldim \in 1..RngDim, rank \in 1..RngDim,
          randstate \in RandStates :
          RngReturn("random_mpo", randstate,
              random_mpo(EnvOf(1), sites, ldim, rank, randstate),
              random_mpo(EnvOf(2), sites, ldim, rank, randstate))

Rng_random_mps ==
    /\ rng_pc = "idle"
    /\ \E sites \in 1..RngSites, ldim \in 1..RngDim, rank \in 1..RngDim,
          randstate \in RandStates :
          RngReturn("random_mps", randstate,
              random_mps(EnvOf(1), sites, ldim, rank, randstate),
              random_mps(EnvOf(2), sites, ldim, rank, randstate))

Rng_random_mpdo ==
    /\ rng_pc = "idle"
    /\ \E sites \in 1..RngSites, ldim \in 1..RngDim, rank \in 1..RngDim,
          randstate \in RandStates :
          RngReturn("random_mpdo", randstate,
              random_mpdo(EnvOf(1), sites, ldim, rank, randstate),
              random_mpdo(EnvOf(2), sites, ldim, rank, randstate))

Rng_random_local_ham ==
    /\ rng_pc = "idle"
    /\ \E sites \in 1..RngSites, ldim \in 1..RngDim, intlen \in 1..RngSites,
          randstate \in RandStates :
          /\ sites >= intlen
          /\ RngReturn("random_local_ham", randstate,
                 random_local_ham(EnvOf(1), sites, ldim, intlen, randstate),
                 random_local_ham(EnvOf(2), sites, ldim, intlen, randstate))

\* Two runs: the caller's generators start in the same state, np.random
\* in any two states.
RngSeeded ==
    /\ rng_pc = "idle"
    /\ rng_default \in (0..MaxSeed) \X (0..MaxSeed)
    /\ \E s \in 0..MaxSeed : rng_state = <<s, s>>
    /\ rng_result = <<<<>>, <<>>>>
    /\ rng_call = [fn |-> "", explicit |-> FALSE, default0 |-> <<0, 0>>]

InitRng == GenInit /\ DiagInit /\ RngSeeded /\ PovmInit /\ MpdoInit

NextRng ==
    \/ Rng_random_mpa
    \/ Rng_random_mpo
    \/ Rng_random_mps
    \/ Rng_random_mpdo
    \/ Rng_random_local_ham

SpecRng == InitRng /\ [][NextRng]_vars

\* C8: a factory called with an explicit generator takes every draw from
\* it and none from the default source: two calls with equal arguments and
\* generators in equal states return equal results whatever the state of
\* the default source, and leave the default source's state unchanged.
C8_ExplicitGeneratorOnly ==
    (rng_pc = "done" /\ rng_call.explicit) =>
        /\ rng_result[1] = rng_result[2]
        /\ rng_default = rng_call.default0

\* the same statement for the factories other than random_local_ham
C8_ExceptLocalHam ==
    (rng_pc = "done" /\ rng_call.explicit /\ rng_call.fn # "random_local_ham") =>
        /\ rng_result[1] = rng_result[2]
        /\ rng_result[1] # <<>>
        /\ rng_default = rng_call.default0

---------------------------------------------------------------------------
(* MPPovm (povm/mppovm.py).  Entries are complex numbers <<re, im>>.       *)

\* a device tensor of shape (left, outcome, row, column, right) with
\* entries that differ from place to place and from site to site
DeviceTensor(shape, site) ==
    [shape |-> shape,
     val   |-> [i \in Indices(shape) |->
                   LET k == Ravel(i, shape) + site
                   IN  <<(k % 3) - 1, ((k \div 3) % 3) - 1>>]]

\* the devices: w sites, o outcomes and row x col elements at each site,
\* a bond of rank 2 between the first two sites and of rank 1 further on
Devices ==
    {[n \in 1..w |->
        DeviceTensor(<<IF n = 2 THEN 2 ELSE 1, o, row, col,
                       IF n = 1 /\ w > 1 THEN 2 ELSE 1>>, n)] :
     w \in 1..MaxWidth, o \in 1..2, row \in 1..PovmDim, col \in 1..PovmDim}

\* the hosts, by their physical-leg counts per site (mpa.plegs)
Plegs == 0..3
Hosts == SeqsOf(Plegs, 1, MaxHost)
\* hosts expectations() accepts: mixed states of as many sites as the
\* device, or one more
MixedHosts(w) == {Repeat(2, n) : n \in w..(w + 1)}

\* numpy's reshape with one axis given as -1
ResolveShape(newshape, size) ==
    LET known == Prod([a \in 1..Len(newshape) |->
                          IF newshape[a] = -1 THEN 1 ELSE newshape[a]])
    IN  [a \in 1..Len(newshape) |->
            IF newshape[a] = -1 THEN size \div known ELSE newshape[a]]

\* mp._local_reshape(ten, newshape): the bonds kept, the physical legs
\* reshaped
local_reshape(ten, newshape) ==
    LET phys == SubSeq(ten.shape, 2, Len(ten.shape) - 1)
    IN  Reshape(ten, <<ten.shape[1]>> \o ResolveShape(newshape, Prod(phys))
                     \o <<Last(ten.shape)>>)

\* a slip: the conjugation left out
np_conj_skipped(arr) == arr

\* ndarray.conj()
np_conj(arr) ==
    [shape |-> arr.shape,
     val   |-> [i \in Indices(arr.shape) |-> <<arr.val[i][1], -arr.val[i][2]>>]]

\* lines 52-53; ten.shape[1] is the outcome axis, the second of the shape
probability_map(ltens) ==
    [n \in 1..Len(ltens) |->
        np_conj(local_reshape(ltens[n], <<ltens[n].shape[2], -1>>))]

\* the caller reads the property probability_map
PovmProbabilityMap ==
    /\ povm_ltens # <<>>
    /\ Len(povm_pmaps) < MaxEvals
    /\ povm_pmaps' = Append(povm_pmaps, probability_map(povm_ltens))
    /\ UNCHANGED <<povm_made, povm_ltens, povm_host, povm_gen, povm_iters, povm_err>>
    /\ UNCHANGED <<genVars, diagVars, rngVars, mpdoVars>>

\* line 34: the number of elements paxis_iter(axes=0) runs over, one per
\* choice of an outcome index at every site
ElementCount(ltens) == Prod([n \in 1..Len(ltens) |-> ltens[n].shape[2]])

\* __iter__ (line 34): a fresh iterator each time
PovmIter ==
    /\ povm_ltens # <<>>
    /\ Len(povm_iters) < MaxIters
    /\ povm_iters' = Append(povm_iters, [pos |-> 0, done |-> FALSE])
    /\ UNCHANGED <<povm_made, povm_ltens, povm_host, povm_gen, povm_pmaps, povm_err>>
    /\ UNCHANGED <<genVars, diagVars, rngVars, mpdoVars>>

\* next() on one of the iterators: the next element, or the end
PovmIterNext ==
    /\ \E k \in 1..Len(povm_iters) :
          /\ ~povm_iters[k].done
          /\ povm_iters' =
                [povm_iters EXCEPT ![k] =
                    IF @.pos < ElementCount(povm_ltens)
                    THEN [pos |-> @.pos + 1, done |-> FALSE]
                    ELSE [pos |-> @.pos, done |-> TRUE]]
    /\ UNCHANGED <<povm_made, povm_ltens, povm_host, povm_gen, povm_pmaps, povm_err>>
    /\ UNCHANGED <<genVars, diagVars, rngVars, mpdoVars>>

\* a slip in the tests of lines 66 and 68: any() for all()
AllPlegs_any(plegs, k) == \E n \in 1..Len(plegs) : plegs[n] = k

\* all(pleg == k for pleg in mpa.plegs), lines 66 and 68
AllPlegs(plegs, k) == \A n \in 1..Len(plegs) : plegs[n] = k

\* a slip in the width handed to reductions_mpo: one site short
ReductionWidth_short(ltens) == Len(ltens) - 1

\* line 70: the width len(self) handed to reductions_mpo
ReductionWidth(ltens) == Len(ltens)

\* mpsmpo.reductions_mpo(mpa, width): the reduced states on the windows
\* [n, n + width), n = 0 .. len(mpa) - width, one per request, in order
ReductionCount(host, width) == Len(host) - width + 1
Reduction(n, width) == [start |-> n, stop |-> n + width]

\* line 71: mp.dot(pmap, rho_red.ravel()), by what it is computed from
Expectation(pmap, rho_red) ==
    [pmap |-> [n \in 1..Len(pmap) |-> pmap[n].shape], ravel |-> rho_red]

\* expectations(mpa) is called: a generator function, so the call runs
\* none of lines 64-74 and returns a generator object
PovmExpectations(H) ==
    /\ povm_ltens # <<>>
    /\ povm_gen.pc = "none"
    /\ \E host \in H :
          /\ povm_host' = host
          /\ povm_gen' = [NoGenerator EXCEPT !.pc = "created"]
    /\ UNCHANGED <<povm_made, povm_ltens, povm_pmaps, povm_iters, povm_err>>
    /\ UNCHANGED <<genVars, diagVars, rngVars, mpdoVars>>

\* the loop of lines 70-72, entered or resumed: the next reduction is
\* taken from reductions_mpo and its expectation yielded, or the loop ends
PovmLoop(gen, pmap) ==
    IF gen.n < ReductionCount(povm_host, ReductionWidth(povm_ltens))
    THEN [gen EXCEPT
            !.pc = "suspended",
            !.pmap = pmap,
            !.n = @ + 1,
            !.computed = @ + 1,
            !.out = Append(@, Expectation(pmap,
                               Reduction(gen.n, ReductionWidth(povm_ltens))))]
    ELSE [gen EXCEPT !.pc = "done", !.pmap = pmap]

\* next() on the generator: the body runs to its next yield, its return
\* or an exception
PovmNext ==
    /\ povm_gen.pc \in {"created", "suspended"}
    /\ LET gen == [povm_gen EXCEPT !.requests = @ + 1]
           raise(name) ==
               /\ povm_gen' = [gen EXCEPT !.pc = "raised"]
               /\ povm_err' = [name |-> name, at |-> "next"]
       IN  IF povm_gen.pc = "suspended"
           THEN /\ povm_gen' = PovmLoop(gen, gen.pmap)
                /\ UNCHANGED povm_err
           ELSE IF ~(Len(povm_ltens) <= Len(povm_host))          \* line 64
           THEN raise("AssertionError")
           ELSE IF AllPlegs(povm_host, 1)                        \* line 66
           THEN raise("NotImplementedError")
           ELSE IF AllPlegs(povm_host, 2)                        \* line 68
           THEN /\ povm_gen' = PovmLoop(gen, probability_map(povm_ltens))
                /\ UNCHANGED povm_err
           ELSE raise("ValueError")                              \* line 74
    /\ UNCHANGED <<povm_made, povm_ltens, povm_host, povm_pmaps, povm_iters>>
    /\ UNCHANGED <<genVars, diagVars, rngVars, mpdoVars>>

\* a device has been constructed
PovmDevice ==
    /\ povm_made \in Devices
    /\ povm_ltens = povm_made
    /\ povm_host = <<>>
    /\ povm_gen = NoGenerator
    /\ povm_pmaps = <<>>
    /\ povm_iters = <<>>
    /\ povm_err = [name |-> "", at |-> ""]

InitPovm == GenInit /\ DiagInit /\ RngInit /\ PovmDevice /\ MpdoInit

\* expectations() on any host
NextPovm ==
    \/ PovmExpectations(Hosts)
    \/ PovmNext

SpecPovm == InitPovm /\ [][NextPovm]_vars

\* probability_map, __iter__ and expectations on a mixed host, interleaved
NextPovmUse ==
    \/ PovmProbabilityMap
    \/ PovmIter
    \/ PovmIterNext
    \/ PovmExpectations(MixedHosts(Len(povm_ltens)))
    \/ PovmNext

SpecPovmUse == InitPovm /\ [][NextPovmUse]_vars

---------------------------------------------------------------------------
(* Properties of MPPovm.                                                   *)

\* the shape probability_map is to give the tensor of a device site
PmapShape(ten) ==
    <<ten.shape[1], ten.shape[2], ten.shape[3] * ten.shape[4], ten.shape[5]>>

HostMixed == \A n \in 1..Len(povm_host) : povm_host[n] = 2
HostPure  == \A n \in 1..Len(povm_host) : povm_host[n] = 1
HostLongEnough == Len(povm_host) >= Len(povm_ltens)
Started == povm_gen.pc \notin {"none", "created"}

\* C4: for a device of w sites and a host of N >= w sites with 2 legs
\* each, expectations produces exactly N - w + 1 values and then ends; the
\* n-th value is the probability map contracted with the flattened reduced
\* state of sites [n, n + w); values come in increasing window order and
\* none is computed before the consumer has asked for it.
C4_Expectations ==
    (Started /\ HostMixed /\ HostLongEnough) =>
        LET w     == Len(povm_ltens)
            count == Len(povm_host) - w + 1
            out   == povm_gen.out
        IN  /\ povm_gen.pc \in {"suspended", "done"}
            /\ Len(out) <= count
            /\ \A i \in 1..Len(out) :
                  /\ out[i].ravel = [start |-> i - 1, stop |-> i - 1 + w]
                  /\ out[i].pmap = [n \in 1..w |-> PmapShape(povm_made[n])]
            /\ povm_gen.computed = Len(out)
            /\ povm_gen.computed <= povm_gen.requests
            /\ (povm_gen.pc = "suspended" => Len(out) = povm_gen.requests)
            /\ (povm_gen.pc = "done" =>
                   /\ Len(out) = count
                   /\ povm_gen.requests = count + 1)

\* a two-site device on a three-site host, iterated to its end
C4_Witness ==
    /\ povm_gen.pc = "done"
    /\ Len(povm_ltens) = 2
    /\ povm_host = <<2, 2, 2>>
    /\ Len(povm_gen.out) = 2
    /\ povm_gen.out[2].ravel = [start |-> 1, stop |-> 3]

\* C5: a host no shorter than the device is classified by its leg counts
\* into exactly one outcome: all 1 -> NotImplementedError and no value;
\* all 2 -> values and no error; anything else -> ValueError and no value.
C5_Classification ==
    (Started /\ HostLongEnough) =>
        IF HostPure
        THEN /\ povm_gen.pc = "raised"
             /\ povm_err.name = "NotImplementedError"
             /\ povm_gen.out = <<>>
        ELSE IF HostMixed
        THEN /\ povm_gen.pc \in {"suspended", "done"}
             /\ povm_err.name = ""
             /\ Len(povm_gen.out) >= 1
        ELSE /\ povm_gen.pc = "raised"
             /\ povm_err.name = "ValueError"
             /\ povm_gen.out = <<>>

\* a host that mixes 1-leg and 2-leg sites is refused with ValueError
C5_Witness ==
    /\ povm_gen.pc = "raised"
    /\ povm_host = <<1, 2>>
    /\ Len(povm_ltens) = 2
    /\ povm_err.name = "ValueError"

\* C6: a call of expectations with a host that is shorter than the device,
\* pure (1 leg per site) or of unrecognised leg counts raises during the
\* call itself, before anything is returned and without a first value
\* being requested.
C6_RaisesAtCall ==
    (povm_gen.pc # "none" /\ ~(HostLongEnough /\ HostMixed)) =>
        /\ povm_gen.pc = "raised"
        /\ povm_gen.requests = 0
        /\ povm_err.at = "call"

\* C9: probability_map is a pure function of the device: a new train with
\* one tensor per site, of shape (left, outcome, row * column, right),
\* taken from the device tensor; the device's tensors stay as they were,
\* and every evaluation, however interleaved with __iter__ and
\* expectations, gives the same tensors.
C9_ProbabilityMap ==
    LET read(pm) ==
            /\ Len(pm) = Len(povm_made)
            /\ \A n \in 1..Len(pm) :
                  LET ten == povm_made[n]
                  IN  /\ pm[n].shape = PmapShape(ten)
                      /\ \A i \in Indices(ten.shape) :
                            pm[n].val[<<i[1], i[2], i[3] * ten.shape[4] + i[4], i[5]>>]
                                = <<ten.val[i][1], 0 - ten.val[i][2]>>
    IN  /\ povm_ltens = povm_made
        /\ \A e \in 1..Len(povm_pmaps) :
              /\ read(povm_pmaps[e])
              /\ povm_pmaps[e] = povm_pmaps[1]
              /\ povm_gen.pmap # <<>> => povm_gen.pmap = povm_pmaps[e]
        /\ povm_gen.pmap # <<>> => read(povm_gen.pmap)

\* two reads of probability_map around an element iteration and a running
\* expectations generator, on a two-site device with non-square elements
C9_Witness ==
    /\ Len(povm_pmaps) = 2
    /\ Len(povm_iters) = 1
    /\ povm_iters[1].pos >= 1
    /\ povm_gen.pc = "suspended"
    /\ Len(povm_ltens) = 2
    /\ povm_ltens[1].shape = <<1, 2, 1, 2, 2>>
    /\ povm_ltens[2].shape = <<2, 2, 1, 2, 1>>
    /\ \E i \in Indices(povm_ltens[1].shape) : povm_ltens[1].val[i][2] # 0

---------------------------------------------------------------------------
(* random_mpdo (factory.py 375-405), by the shapes of the local tensors.   *)

\* mpsmpo.mps_to_mpo(psi): the projector on psi; each local tensor gets a
\* second copy of its physical leg and the squares of its bond ranks
mps_to_mpo(psi) ==
    [n \in 1..Len(psi) |->
        <<psi[n][1] * psi[n][1], psi[n][2], psi[n][2],
          Last(psi[n]) * Last(psi[n])>>]

RECURSIVE SumSeq(_)
SumSeq(s) == IF s = <<>> THEN 0 ELSE Head(s) + SumSeq(Tail(s))

\* mp.sumup(mpas): the bond ranks of the summands add up, except at the
\* two ends of the chain, which keep rank 1
sumup(mpas) ==
    LET sites == Len(mpas[1])
    IN  [n \in 1..sites |->
            <<IF n = 1 THEN 1 ELSE SumSeq([k \in 1..Len(mpas) |-> mpas[k][n][1]])>>
            \o SubSeq(mpas[1][n], 2, Len(mpas[1][n]) - 1)
            \o <<IF n = sites THEN 1
                 ELSE SumSeq([k \in 1..Len(mpas) |-> Last(mpas[k][n])])>>]

\* utils.matdot(A, B): the last axis of A contracted with the first of B;
\* <<>> stands for the ValueError numpy raises when the two differ
matdot(A, B) ==
    IF Last(A) = B[1]
    THEN SubSeq(A, 1, Len(A) - 1) \o Tail(B)
    ELSE <<>>

\* a slip in the loop: the unitary sized by the loop index
UnitaryDim_index(ranks, n) == n + 1

\* lines 399-400: `rank` is the n-th entry of rho.ranks (n from 0)
UnitaryDim(ranks, n) == ranks[n + 1]

\* lines 393-396: the mixture of `rank` product states
MpdoBuild ==
    /\ mpdo_pc = "idle"
    /\ \E sites \in 1..MpdoSites, ldim \in 1..MpdoDim, rank \in 1..MpdoRank :
          LET psi  == GenerateShapes(sites, Scalar(ldim), Scalar(1), FALSE)
              psis == [k \in 1..rank |-> psi]
              rho  == sumup([k \in 1..rank |-> mps_to_mpo(psis[k])])
          IN  /\ mpdo_args' = [sites |-> sites, ldim |-> ldim, rank |-> rank]
              /\ mpdo_lt' = rho
              /\ mpdo_ranks' = TrainRanks(rho)
    /\ mpdo_pc' = "scramble"
    /\ mpdo_n' = 0
    /\ mpdo_log' = <<>>
    /\ UNCHANGED <<genVars, diagVars, rngVars, povmVars>>

\* lines 399-402: one pass of the scrambling loop
MpdoScramble ==
    /\ mpdo_pc = "scramble"
    /\ mpdo_n < Len(mpdo_ranks)
    /\ LET n       == mpdo_n
           dim     == UnitaryDim(mpdo_ranks, n)
           unitary == <<dim, dim>>
           left    == matdot(mpdo_lt[n + 1], unitary)
           right   == matdot(unitary, mpdo_lt[n + 2])
       IN  /\ mpdo_log' = Append(mpdo_log,
                                 [n |-> n, dim |-> dim, right_bond_of |-> n,
                                  left_bond_of |-> n + 1])
           /\ IF left = <<>> \/ right = <<>>
              THEN /\ mpdo_pc' = "raised"
                   /\ UNCHANGED <<mpdo_lt, mpdo_n>>
              ELSE /\ mpdo_lt' = [mpdo_lt EXCEPT ![n + 1] = left, ![n + 2] = right]
                   /\ mpdo_n' = n + 1
                   /\ UNCHANGED mpdo_pc
    /\ UNCHANGED <<mpdo_args, mpdo_ranks>>
    /\ UNCHANGED <<genVars, diagVars, rngVars, povmVars>>

\* lines 404-405: normalised and returned
MpdoReturn ==
    /\ mpdo_pc = "scramble"
    /\ mpdo_n = Len(mpdo_ranks)
    /\ mpdo_pc' = "done"
    /\ UNCHANGED <<mpdo_args, mpdo_lt, mpdo_ranks, mpdo_n, mpdo_log>>
    /\ UNCHANGED <<genVars, diagVars, rngVars, povmVars>>

NextMpdo ==
    \/ MpdoBuild
    \/ MpdoScramble
    \/ MpdoReturn

SpecMpdo == Init /\ [][NextMpdo]_vars

\* C10: random_mpdo(sites, ldim, rank) returns a train whose internal bond
\* ranks all equal rank (also above the full-rank bound) and whose sites
\* have physical shape (ldim, ldim); the scrambling loop visits the bonds
\* 0..sites-2 once each, in order, with a unitary as wide as the bond,
\* applied to the right bond of tensor n and the left bond of tensor n+1;
\* after every pass each tensor has its shape and neighbouring ranks match.
C10_Mpdo ==
    mpdo_pc # "idle" =>
        LET sites == mpdo_args.sites
            rank  == mpdo_args.rank
        IN  /\ mpdo_pc # "raised"
            /\ Len(mpdo_lt) = sites
            /\ \A n \in 1..sites :
                  /\ mpdo_lt[n] = <<IF n = 1 THEN 1 ELSE rank,
                                    mpdo_args.ldim, mpdo_args.ldim,
                                    IF n = sites THEN 1 ELSE rank>>
                  /\ n < sites => Last(mpdo_lt[n]) = mpdo_lt[n + 1][1]
            /\ TrainRanks(mpdo_lt) = Repeat(rank, sites - 1)
            /\ Len(mpdo_log) = mpdo_n
            /\ mpdo_n <= sites - 1
            /\ \A i \in 1..Len(mpdo_log) :
                  mpdo_log[i] = [n |-> i - 1, dim |-> rank,
                                 right_bond_of |-> i - 1, left_bond_of |-> i]
            /\ mpdo_pc = "done" => Len(mpdo_log) = sites - 1

\* a four-site operator of rank 4 on local dimension 1, where the
\* full-rank bound of every cut is 1, after all three passes
C10_Witness ==
    /\ mpdo_pc = "done"
    /\ mpdo_args = [sites |-> 4, ldim |-> 1, rank |-> 4]
    /\ Len(mpdo_log) = 3
    /\ TrainRanks(mpdo_lt) = <<4, 4, 4>>

============================================================================
